---- MODULE Spec2Model ----
(***************************************************************************)
(* Model of the CNN of Yrgo-24/ml-assignment6: the stub convolution,       *)
(* max-pooling and flatten layers, the dense layer, the network            *)
(* orchestrator ml::cnn::Cnn and its training loop.                        *)
(*                                                                         *)
(* Numbers: a double is modelled by an integer.  Every integer the model   *)
(* uses is exactly representable as a double and +, -, * on them are exact *)
(* in double arithmetic, so the arithmetic of the layers is the code's     *)
(* arithmetic restricted to integer-valued inputs.  std::tanh, which has   *)
(* no integer value except at 0, is rounded to the nearest integer.        *)
(* Indices: C++ index k of a vector is index k+1 of the sequence.          *)
(***************************************************************************)
EXTENDS Integers, Sequences, FiniteSets, TLC

(***************************************************************************)
(* Bounds of the model.                                                    *)
(***************************************************************************)
\* Most training sets passed to train, and most epochs asked for.
MaxSets == 2
MaxEpochs == 2
\* Longest training order list shuffled on its own.
MaxListLen == 4
\* Most calls made on a Dense object driven on its own.
MaxOps == 3
\* Largest magnitude of a weight, bias, output or gradient the network is
\* stepped from: below it every sum and product of the layers is exact.
MaxAbs == 32768

(***************************************************************************)
(* Program constants.                                                      *)
(***************************************************************************)
\* RAND_MAX of <cstdlib> (the least value the C standard allows) and the
\* largest std::int32_t.
RAND_MAX == 32767
INT32_MAX == 2147483647

kMinKernelSize == 1
kMaxKernelSize == 11

ActFuncTypes == {"Relu", "Tanh", "None"}

(***************************************************************************)
(* Matrix helpers (utils.cpp).                                             *)
(***************************************************************************)
\* initMatrix(Matrix1d&, size) on a default-constructed vector.
initMatrix1d(size) == [k \in 1..size |-> 0]

\* initMatrix(Matrix2d&, rowCount, colCount) on a default-constructed matrix.
initMatrix2d(rowCount, colCount) == [r \in 1..rowCount |-> [c \in 1..colCount |-> 0]]

\* isMatrixSquare(matrix, opName): every row is as long as the matrix.
isMatrixSquare(matrix) == \A r \in 1..Len(matrix) : Len(matrix[r]) = Len(matrix)

matchDimensions(expectedSize, actualSize) == expectedSize = actualSize

checkLearningRate(learningRate) == ~(0 >= learningRate)

(***************************************************************************)
(* Activation functions.                                                   *)
(***************************************************************************)
ReluOutput(input) == IF 0 < input THEN input ELSE 0

ReluDelta(input) == IF 0 < input THEN 1 ELSE 0

\* std::tanh rounded to the nearest integer: tanh(x) >= 0.76 for x >= 1.
TanhOutput(input) == IF input > 0 THEN 1 ELSE IF input < 0 THEN -1 ELSE 0

TanhDelta(input) == 1 - TanhOutput(input) * TanhOutput(input)

NoneOutput(input) == input

NoneDelta(input) == 1

\* Factory::actFunc: the object bound to a type tag; default is None.
actFunc(type) == IF type = "Relu" THEN "Relu" ELSE IF type = "Tanh" THEN "Tanh" ELSE "None"

ActOutput(f, x) == IF f = "Relu" THEN ReluOutput(x)
                   ELSE IF f = "Tanh" THEN TanhOutput(x) ELSE NoneOutput(x)

ActDelta(f, x) == IF f = "Relu" THEN ReluDelta(x)
                  ELSE IF f = "Tanh" THEN TanhDelta(x) ELSE NoneDelta(x)

(***************************************************************************)
(* Convolution and max-pooling layers (stubs created by the Factory).      *)
(* Both are kept as records with the same fields; a field the class does   *)
(* not have is the empty matrix.                                           *)
(***************************************************************************)
ConvThrows(inputSize, kernelSize) ==
    \/ kMinKernelSize > kernelSize
    \/ kMaxKernelSize < kernelSize
    \/ inputSize < kernelSize

Conv(inputSize, kernelSize) ==
    [kind |-> "Conv",
     myInput |-> <<>>,
     myInputGradients |-> initMatrix2d(inputSize, inputSize),
     myKernel |-> initMatrix2d(kernelSize, kernelSize),
     myOutput |-> initMatrix2d(inputSize, inputSize)]

\* A faulty parameter check: divisibility is not tested.
MaxPoolThrowsWithoutRemainderTest(inputSize, poolSize) ==
    \/ 0 = inputSize
    \/ 0 = poolSize
    \/ inputSize < poolSize

MaxPoolThrows(inputSize, poolSize) ==
    \/ 0 = inputSize
    \/ 0 = poolSize
    \/ inputSize < poolSize
    \/ (poolSize # 0 /\ 0 # (inputSize % poolSize))

MaxPool(inputSize, poolSize) ==
    [kind |-> "MaxPool",
     myInput |-> initMatrix2d(inputSize, inputSize),
     myInputGradients |-> initMatrix2d(inputSize, inputSize),
     myKernel |-> <<>>,
     myOutput |-> initMatrix2d(inputSize \div poolSize, inputSize \div poolSize)]

ConvInputSize(l) == Len(l.myInputGradients)

ConvOutputSize(l) == Len(l.myOutput)

\* A faulty feedforward: only the number of rows is compared.
ConvFeedforwardOfRowCount(l, input) ==
    IF l.kind = "Conv"
    THEN matchDimensions(Len(l.myOutput), Len(input))
    ELSE matchDimensions(Len(l.myInput), Len(input))

\* Conv::feedforward compares with myOutput.size(), MaxPool::feedforward with myInput.size().
ConvFeedforward(l, input) ==
    IF l.kind = "Conv"
    THEN matchDimensions(Len(l.myOutput), Len(input)) /\ isMatrixSquare(input)
    ELSE matchDimensions(Len(l.myInput), Len(input)) /\ isMatrixSquare(input)

ConvBackpropagate(l, outputGradients) ==
    matchDimensions(Len(l.myOutput), Len(outputGradients)) /\ isMatrixSquare(outputGradients)

\* A faulty optimize: the learning rate is not checked.
ConvOptimizeOfAnyRate(l, learningRate) == TRUE

\* Conv::optimize checks the learning rate, MaxPool::optimize returns true.
ConvOptimize(l, learningRate) ==
    IF l.kind = "Conv" THEN checkLearningRate(learningRate) ELSE TRUE

(***************************************************************************)
(* Flatten layer (stub created by the Factory).                            *)
(***************************************************************************)
FlattenThrows(inputSize) == 0 = inputSize

Flatten(inputSize) ==
    [myInputGradients |-> initMatrix2d(inputSize, inputSize),
     myOutput |-> initMatrix1d(inputSize * inputSize)]

FlattenInputSize(l) == Len(l.myInputGradients)

FlattenOutputSize(l) == Len(l.myOutput)

FlattenFeedforward(l, input) ==
    matchDimensions(Len(l.myInputGradients), Len(input)) /\ isMatrixSquare(input)

\* A faulty backpropagate: the size of the gradients is not compared.
FlattenBackpropagateOfAnySize(l, outputGradients) == TRUE

FlattenBackpropagate(l, outputGradients) ==
    matchDimensions(Len(l.myOutput), Len(outputGradients))

(***************************************************************************)
(* Dense layer (dense.cpp).                                                *)
(***************************************************************************)
\* The values the process-wide Generator makes randomStartVal() return: the
\* generator is seeded once, and the k-th draw (k from 0) of a construction
\* follows a repeating pattern of 0.0 (rand() == 0) and 1.0 (rand() ==
\* RAND_MAX).  The seed is the pattern.
InitPatterns == {<<0>>, <<1>>, <<1, 0>>}

\* The pattern the networks are built from: it gives a dense layer of one
\* input bias 1 and weight 0, and one of four inputs the weights 0, 1, 0, 1.
CnnPatterns == {<<1, 0>>}

randomStartVal(pattern, k) == pattern[(k % Len(pattern)) + 1]

\* A faulty parameter check: the input size is not tested.
checkParametersThrowsOnOutputOnly(inputSize, outputSize) == 0 = outputSize

checkParametersThrows(inputSize, outputSize) == (0 = outputSize) \/ (0 = inputSize)

\* Dense::initialize: the bias of node i is drawn before the weights of node i.
initialize(inputSize, outputSize, type, pattern) ==
    [myInputGradients |-> initMatrix1d(outputSize),
     myBias |-> [i \in 1..outputSize |-> randomStartVal(pattern, (i - 1) * (inputSize + 1))],
     myWeights |-> [i \in 1..outputSize |-> [j \in 1..inputSize |->
                       randomStartVal(pattern, (i - 1) * (inputSize + 1) + j)]],
     myOutput |-> initMatrix1d(outputSize),
     myActFunc |-> actFunc(type)]

DenseInputSize(l) == IF Len(l.myWeights) = 0 THEN 0 ELSE Len(l.myWeights[1])

DenseOutputSize(l) == Len(l.myOutput)

\* sum of a[j] * b[j] for j in 1..n
RECURSIVE SumProduct(_, _, _)
SumProduct(a, b, n) == IF n = 0 THEN 0 ELSE SumProduct(a, b, n - 1) + a[n] * b[n]

\* A faulty feedforward: it also clears the layer's input gradients.
DenseFeedforwardClearingGradients(l, input) ==
    IF ~matchDimensions(DenseInputSize(l), Len(input))
    THEN [ok |-> FALSE, layer |-> l]
    ELSE [ok |-> TRUE,
          layer |-> [l EXCEPT
              !.myInputGradients = initMatrix1d(DenseOutputSize(l)),
              !.myOutput = [i \in 1..DenseOutputSize(l) |->
                  ActOutput(l.myActFunc,
                            l.myBias[i] + SumProduct(l.myWeights[i], input, DenseInputSize(l)))]]]

\* A faulty feedforward: the bias is left out of the sum.
DenseFeedforwardWithoutBias(l, input) ==
    IF ~matchDimensions(DenseInputSize(l), Len(input))
    THEN [ok |-> FALSE, layer |-> l]
    ELSE [ok |-> TRUE,
          layer |-> [l EXCEPT !.myOutput = [i \in 1..DenseOutputSize(l) |->
              ActOutput(l.myActFunc, SumProduct(l.myWeights[i], input, DenseInputSize(l)))]]]

DenseFeedforward(l, input) ==
    IF ~matchDimensions(DenseInputSize(l), Len(input))
    THEN [ok |-> FALSE, layer |-> l]
    ELSE [ok |-> TRUE,
          layer |-> [l EXCEPT !.myOutput = [i \in 1..DenseOutputSize(l) |->
              ActOutput(l.myActFunc,
                        l.myBias[i] + SumProduct(l.myWeights[i], input, DenseInputSize(l)))]]]

\* A faulty output-layer form: the layer's output is not subtracted.
DenseBackpropagateOfTarget(l, outputGradients) ==
    IF ~matchDimensions(DenseOutputSize(l), Len(outputGradients))
    THEN [ok |-> FALSE, layer |-> l]
    ELSE [ok |-> TRUE,
          layer |-> [l EXCEPT !.myInputGradients = [i \in 1..DenseOutputSize(l) |->
              outputGradients[i] * ActDelta(l.myActFunc, l.myOutput[i])]]]

\* Dense::backpropagate(const std::vector<double>& outputGradients): output-layer form.
DenseBackpropagate(l, outputGradients) ==
    IF ~matchDimensions(DenseOutputSize(l), Len(outputGradients))
    THEN [ok |-> FALSE, layer |-> l]
    ELSE [ok |-> TRUE,
          layer |-> [l EXCEPT !.myInputGradients = [i \in 1..DenseOutputSize(l) |->
              (outputGradients[i] - l.myOutput[i]) * ActDelta(l.myActFunc, l.myOutput[i])]]]

\* error of node i in the hidden-layer form: sum over the next layer's nodes j
\* (1..n) of nextLayer.inputGradients()[j] * nextLayer.weights()[j][i].
RECURSIVE HiddenError(_, _, _)
HiddenError(nextLayer, i, n) ==
    IF n = 0 THEN 0
    ELSE HiddenError(nextLayer, i, n - 1)
         + nextLayer.myInputGradients[n] * nextLayer.myWeights[n][i]

\* A faulty hidden-layer form: the error is not multiplied by delta(output).
DenseBackpropagateHiddenWithoutDelta(l, nextLayer) ==
    IF ~matchDimensions(DenseOutputSize(l), DenseInputSize(nextLayer))
    THEN [ok |-> FALSE, layer |-> l]
    ELSE [ok |-> TRUE,
          layer |-> [l EXCEPT !.myInputGradients = [i \in 1..DenseOutputSize(l) |->
              HiddenError(nextLayer, i, DenseOutputSize(nextLayer))]]]

\* Dense::backpropagate(const Interface& nextLayer): hidden-layer form.
DenseBackpropagateHidden(l, nextLayer) ==
    IF ~matchDimensions(DenseOutputSize(l), DenseInputSize(nextLayer))
    THEN [ok |-> FALSE, layer |-> l]
    ELSE [ok |-> TRUE,
          layer |-> [l EXCEPT !.myInputGradients = [i \in 1..DenseOutputSize(l) |->
              HiddenError(nextLayer, i, DenseOutputSize(nextLayer))
                  * ActDelta(l.myActFunc, l.myOutput[i])]]]

\* A faulty optimize: the learning rate is not checked.
DenseOptimizeAnyRate(l, input, learningRate) ==
    IF ~matchDimensions(DenseInputSize(l), Len(input))
    THEN [ok |-> FALSE, layer |-> l]
    ELSE [ok |-> TRUE,
          layer |-> [l EXCEPT
              !.myBias = [i \in 1..DenseOutputSize(l) |->
                  l.myBias[i] + l.myInputGradients[i] * learningRate],
              !.myWeights = [i \in 1..DenseOutputSize(l) |-> [j \in 1..DenseInputSize(l) |->
                  l.myWeights[i][j] + l.myInputGradients[i] * learningRate * input[j]]]]]

\* A faulty optimize: the learning rate is tested after the adjustment.
DenseOptimizeBeforeRateTest(l, input, learningRate) ==
    IF ~matchDimensions(DenseInputSize(l), Len(input))
    THEN [ok |-> FALSE, layer |-> l]
    ELSE [ok |-> checkLearningRate(learningRate),
          layer |-> [l EXCEPT
              !.myBias = [i \in 1..DenseOutputSize(l) |->
                  l.myBias[i] + l.myInputGradients[i] * learningRate],
              !.myWeights = [i \in 1..DenseOutputSize(l) |-> [j \in 1..DenseInputSize(l) |->
                  l.myWeights[i][j] + l.myInputGradients[i] * learningRate * input[j]]]]]

\* A faulty optimize: the weights are adjusted without the input factor.
DenseOptimizeWithoutInput(l, input, learningRate) ==
    IF ~matchDimensions(DenseInputSize(l), Len(input)) \/ ~checkLearningRate(learningRate)
    THEN [ok |-> FALSE, layer |-> l]
    ELSE [ok |-> TRUE,
          layer |-> [l EXCEPT
              !.myBias = [i \in 1..DenseOutputSize(l) |->
                  l.myBias[i] + l.myInputGradients[i] * learningRate],
              !.myWeights = [i \in 1..DenseOutputSize(l) |-> [j \in 1..DenseInputSize(l) |->
                  l.myWeights[i][j] + l.myInputGradients[i] * learningRate]]]]

DenseOptimize(l, input, learningRate) ==
    IF ~matchDimensions(DenseInputSize(l), Len(input)) \/ ~checkLearningRate(learningRate)
    THEN [ok |-> FALSE, layer |-> l]
    ELSE [ok |-> TRUE,
          layer |-> [l EXCEPT
              !.myBias = [i \in 1..DenseOutputSize(l) |->
                  l.myBias[i] + l.myInputGradients[i] * learningRate],
              !.myWeights = [i \in 1..DenseOutputSize(l) |-> [j \in 1..DenseInputSize(l) |->
                  l.myWeights[i][j] + l.myInputGradients[i] * learningRate * input[j]]]]]

(***************************************************************************)
(* Network orchestrator (cnn.cpp).  A pass returns its result, the dense   *)
(* layers after the pass (the only layers a pass can change) and the layer *)
(* calls it made, in order.                                                *)
(***************************************************************************)
Call(layer, index, op, arg, ok) ==
    [layer |-> layer, index |-> index, op |-> op, arg |-> arg, ok |-> ok]

AllOk(calls) == \A k \in 1..Len(calls) : calls[k].ok

Last(seq) == seq[Len(seq)]

\* Cnn::convOutputSize / Cnn::convOutput / Cnn::outputSize / Cnn::output
convOutputSize(conv) == ConvOutputSize(Last(conv))

convOutput(conv) == Last(conv).myOutput

\* A faulty outputSize: the input size of the last dense layer.
CnnOutputSizeOfInput(dense) == DenseInputSize(Last(dense))

CnnOutputSize(dense) == DenseOutputSize(Last(dense))

CnnOutput(dense) == Last(dense).myOutput

\* A faulty loop: every conv-stack layer is fed the network input.
ConvFeedforwardCallsOfInput(conv, input) ==
    [i \in 1..Len(conv) |->
        Call("conv", i - 1, "feedforward", input, ConvFeedforward(conv[i], input))]

\* The loop over the conv-stack layers of Cnn::feedforward: every layer is called.
ConvFeedforwardCalls(conv, input) ==
    [i \in 1..Len(conv) |->
        LET prevOutput == IF i = 1 THEN input ELSE conv[i - 1].myOutput
        IN Call("conv", i - 1, "feedforward", prevOutput,
                ConvFeedforward(conv[i], prevOutput))]

\* The loop over the dense layers of Cnn::feedforward from layer i on: layer i
\* consumes the flatten output (i = 1) or the output layer i-1 has after its call.
RECURSIVE DenseFeedforwardLoop(_, _, _, _)
DenseFeedforwardLoop(dense, flatOut, i, calls) ==
    IF i > Len(dense) THEN [dense |-> dense, calls |-> calls]
    ELSE LET prevOutput == IF i = 1 THEN flatOut ELSE dense[i - 1].myOutput
             r == DenseFeedforward(dense[i], prevOutput)
         IN DenseFeedforwardLoop([dense EXCEPT ![i] = r.layer], flatOut, i + 1,
                Append(calls, Call("dense", i - 1, "feedforward", prevOutput, r.ok)))

\* A faulty feedforward: the pass returns at the first call that fails.
CnnFeedforwardShortCircuit(conv, flat, dense, input) ==
    LET d == DenseFeedforwardLoop(dense, flat.myOutput, 1, <<>>)
        all == ConvFeedforwardCalls(conv, input)
               \o <<Call("flatten", 0, "feedforward", convOutput(conv),
                    FlattenFeedforward(flat, convOutput(conv)))>>
               \o d.calls
        first == CHOOSE k \in 1..Len(all) : ~all[k].ok /\ \A m \in 1..(k - 1) : all[m].ok
    IN IF AllOk(all) THEN [ok |-> TRUE, dense |-> d.dense, calls |-> all]
       ELSE [ok |-> FALSE,
             dense |-> [i \in 1..Len(dense) |->
                          IF Len(conv) + 1 + i < first THEN d.dense[i] ELSE dense[i]],
             calls |-> SubSeq(all, 1, first)]

\* A faulty feedforward: values of the network input (its first row) reach
\* the first dense layer.
CnnFeedforwardOfInputValues(conv, flat, dense, input) ==
    LET c == ConvFeedforwardCalls(conv, input)
        f == <<Call("flatten", 0, "feedforward", convOutput(conv),
                    FlattenFeedforward(flat, convOutput(conv)))>>
        d == DenseFeedforwardLoop(dense, [j \in 1..Len(flat.myOutput) |-> input[1][j]],
                                  1, <<>>)
    IN IF ~AllOk(c) THEN [ok |-> FALSE, dense |-> dense, calls |-> c]
       ELSE IF ~AllOk(f) THEN [ok |-> FALSE, dense |-> dense, calls |-> c \o f]
       ELSE [ok |-> AllOk(d.calls), dense |-> d.dense, calls |-> c \o f \o d.calls]

CnnFeedforward(conv, flat, dense, input) ==
    LET c == ConvFeedforwardCalls(conv, input)
        f == <<Call("flatten", 0, "feedforward", convOutput(conv),
                    FlattenFeedforward(flat, convOutput(conv)))>>
        d == DenseFeedforwardLoop(dense, flat.myOutput, 1, <<>>)
    IN IF ~AllOk(c) THEN [ok |-> FALSE, dense |-> dense, calls |-> c]
       ELSE IF ~AllOk(f) THEN [ok |-> FALSE, dense |-> dense, calls |-> c \o f]
       ELSE [ok |-> AllOk(d.calls), dense |-> d.dense, calls |-> c \o f \o d.calls]

\* The dense part of Cnn::backpropagate from layer i down to layer 1: the last
\* layer is called with the target, every earlier layer with the
\* inputGradients() vector of its successor, which selects the overload
\* backpropagate(const std::vector<double>&).
RECURSIVE DenseBackpropagateLoop(_, _, _, _)
DenseBackpropagateLoop(dense, output, i, calls) ==
    IF i < 1 THEN [dense |-> dense, calls |-> calls]
    ELSE LET gradients == IF i = Len(dense) THEN output ELSE dense[i + 1].myInputGradients
             r == DenseBackpropagate(dense[i], gradients)
         IN DenseBackpropagateLoop([dense EXCEPT ![i] = r.layer], output, i - 1,
                Append(calls, Call("dense", i - 1, "backpropagate(outputGradients)",
                                   gradients, r.ok)))

\* The conv-stack part of Cnn::backpropagate, last layer first: every layer is called.
ConvBackpropagateCalls(conv, flat) ==
    [k \in 1..Len(conv) |->
        LET i == Len(conv) + 1 - k
            gradients == IF i = Len(conv) THEN flat.myInputGradients
                         ELSE conv[i + 1].myInputGradients
        IN Call("conv", i - 1, "backpropagate", gradients,
                ConvBackpropagate(conv[i], gradients))]

CnnBackpropagate(conv, flat, dense, output) ==
    LET d == DenseBackpropagateLoop(dense, output, Len(dense), <<>>)
        f == <<Call("flatten", 0, "backpropagate", d.dense[1].myInputGradients,
                    FlattenBackpropagate(flat, d.dense[1].myInputGradients))>>
        c == ConvBackpropagateCalls(conv, flat)
    IN IF ~AllOk(d.calls) THEN [ok |-> FALSE, dense |-> d.dense, calls |-> d.calls]
       ELSE IF ~AllOk(f) THEN [ok |-> FALSE, dense |-> d.dense, calls |-> d.calls \o f]
       ELSE [ok |-> AllOk(c), dense |-> d.dense, calls |-> d.calls \o f \o c]

ConvOptimizeCalls(conv, learningRate) ==
    [i \in 1..Len(conv) |->
        Call("conv", i - 1, "optimize", <<learningRate>>, ConvOptimize(conv[i], learningRate))]

\* A faulty loop: every dense layer is optimized with the flatten output.
RECURSIVE DenseOptimizeLoopOfFlattenOutput(_, _, _, _, _)
DenseOptimizeLoopOfFlattenOutput(dense, flatOut, learningRate, i, calls) ==
    IF i > Len(dense) THEN [dense |-> dense, calls |-> calls]
    ELSE LET r == DenseOptimize(dense[i], flatOut, learningRate)
         IN DenseOptimizeLoopOfFlattenOutput([dense EXCEPT ![i] = r.layer], flatOut,
                learningRate, i + 1,
                Append(calls, Call("dense", i - 1, "optimize", flatOut, r.ok)))

RECURSIVE DenseOptimizeLoop(_, _, _, _, _)
DenseOptimizeLoop(dense, flatOut, learningRate, i, calls) ==
    IF i > Len(dense) THEN [dense |-> dense, calls |-> calls]
    ELSE LET prevOutput == IF i = 1 THEN flatOut ELSE dense[i - 1].myOutput
             r == DenseOptimize(dense[i], prevOutput, learningRate)
         IN DenseOptimizeLoop([dense EXCEPT ![i] = r.layer], flatOut, learningRate, i + 1,
                Append(calls, Call("dense", i - 1, "optimize", prevOutput, r.ok)))

\* A faulty optimize: the pass returns at the first call that fails.
CnnOptimizeShortCircuit(conv, flat, dense, learningRate) ==
    LET d == DenseOptimizeLoop(dense, flat.myOutput, learningRate, 1, <<>>)
        all == ConvOptimizeCalls(conv, learningRate) \o d.calls
        first == CHOOSE k \in 1..Len(all) : ~all[k].ok /\ \A m \in 1..(k - 1) : all[m].ok
    IN IF AllOk(all) THEN [ok |-> TRUE, dense |-> d.dense, calls |-> all]
       ELSE [ok |-> FALSE,
             dense |-> [i \in 1..Len(dense) |->
                          IF Len(conv) + i < first THEN d.dense[i] ELSE dense[i]],
             calls |-> SubSeq(all, 1, first)]

CnnOptimize(conv, flat, dense, learningRate) ==
    LET c == ConvOptimizeCalls(conv, learningRate)
        d == DenseOptimizeLoop(dense, flat.myOutput, learningRate, 1, <<>>)
    IN IF ~AllOk(c) THEN [ok |-> FALSE, dense |-> dense, calls |-> c]
       ELSE [ok |-> AllOk(d.calls), dense |-> d.dense, calls |-> c \o d.calls]

(***************************************************************************)
(* Training order list (utils.cpp).                                        *)
(***************************************************************************)
\* A faulty createTrainOrderList: every element is 0.
createTrainOrderListOfZeros(trainSetCount) == [k \in 1..trainSetCount |-> 0]

createTrainOrderList(trainSetCount) == [k \in 1..trainSetCount |-> k - 1]

\* A faulty swap: list[i] is overwritten before it is saved.
ShuffleSwapWithoutTemp(list, i, r) ==
    LET step1 == [list EXCEPT ![i + 1] = list[r + 1]]
    IN [step1 EXCEPT ![r + 1] = step1[i + 1]]

\* One iteration of the loop of shuffleTrainOrderList: i is the loop index and
\* r the value of Generator::uint32(list.size()), both counted from 0.
ShuffleSwap(list, i, r) ==
    LET temp == list[i + 1]
        step1 == [list EXCEPT ![i + 1] = list[r + 1]]
    IN [step1 EXCEPT ![r + 1] = temp]

\* The random values of one call on a list of n elements, one per iteration.
Draws(n) == [0..(n - 1) -> 0..(n - 1)]

\* The iterations i, i + 1, ... of the loop of shuffleTrainOrderList.
RECURSIVE ShuffleFrom(_, _, _)
ShuffleFrom(list, draws, i) ==
    IF i < Len(list) THEN ShuffleFrom(ShuffleSwap(list, i, draws[i]), draws, i + 1)
    ELSE list

shuffleTrainOrderList(list, draws) == ShuffleFrom(list, draws, 0)

(***************************************************************************)
(* Inputs the model enumerates.                                            *)
(***************************************************************************)
ConvInputs == 0..4

KernelSizes == {0, 2, 12}

PoolSizes == {0, 2}

DenseOutputs == {0, 1}

\* Numbers of dense layers a network is given.
DenseLayerCounts == {1, 2}

LearningRates == {0, 1}

EpochCounts == 0..MaxEpochs

\* The two training inputs of main (a hollow square and a vertical bar).
HollowSquare == <<<<1, 1, 1, 1>>, <<1, 0, 0, 1>>, <<1, 0, 0, 1>>, <<1, 1, 1, 1>>>>

VerticalBar == <<<<0, 1, 0, 0>>, <<0, 1, 0, 0>>, <<0, 1, 0, 0>>, <<0, 1, 0, 0>>>>

\* The upper left n x n corner of a pattern of main.
Corner(m, n) == [r \in 1..n |-> [c \in 1..n |-> m[r][c]]]

\* n rows, the first one too long: passes matchDimensions, fails isMatrixSquare.
NotSquare(n) == [r \in 1..n |-> [c \in 1..(IF r = 1 THEN n + 1 ELSE n) |-> 1]]

\* Input matrices offered to a network of input size n: the two patterns of
\* main cut to n x n, a matrix that is not square, and one of the wrong size.
InputsFor(n) == {Corner(HollowSquare, n), Corner(VerticalBar, n), NotSquare(n),
                 initMatrix2d(n + 1, n + 1)}

\* Target vectors offered to a network of output size k: the labels 0 and 1
\* of main repeated k times, and a vector that is too long.
TargetsFor(k) == {[i \in 1..k |-> 0], [i \in 1..k |-> 1], [i \in 1..(k + 1) |-> 0]}

\* Sequences of length len over the elements good1, good2, bad: good1 and
\* good2 alternate, and at most one position holds bad.
ExampleSeqs(len, good1, good2, bad) ==
    {[k \in 1..len |-> IF k = b THEN bad ELSE IF k % 2 = 1 THEN good1 ELSE good2] :
        b \in 0..len}

TrainInputs(n) ==
    UNION {ExampleSeqs(len, Corner(HollowSquare, n), Corner(VerticalBar, n), NotSquare(n)) :
              len \in 0..MaxSets}

TrainOutputs(k) ==
    UNION {ExampleSeqs(len, [i \in 1..k |-> 0], [i \in 1..k |-> 1], [i \in 1..(k + 1) |-> 0]) :
              len \in 0..MaxSets}

\* The larger of two sizes, where std::min is meant.
Max(a, b) == IF a < b THEN b ELSE a

\* std::min
Min(a, b) == IF a < b THEN a ELSE b

\* trainIn[j] / trainOut[j]: the element when j is in range; an index past the
\* end is undefined behaviour and may yield any value.
ElementAt(seq, j, any) == IF j < Len(seq) THEN {seq[j + 1]} ELSE any

(***************************************************************************)
(* State.                                                                  *)
(***************************************************************************)
VARIABLES
    seed,            \* the rand() pattern the Generator was seeded with
    alive,           \* a Cnn object exists
    myConvLayers,    \* Cnn::myConvLayers
    myFlattenLayer,  \* Cnn::myFlattenLayer
    myDenseLayers,   \* Cnn::myDenseLayers (in SpecDense: the Dense objects under test)
    pc,              \* position of the caller inside Cnn::train
    trainIn,         \* arguments of the running train call
    trainOut,
    epochCount,
    learningRate,
    setCount,        \* locals of the running train call
    trainOrder,
    epoch,           \* loop variable i of the epoch loop
    shuffleIdx,      \* loop variable i of shuffleTrainOrderList
    pos,             \* position of the range-for over trainOrder
    trainResult,     \* return value of train
    predictOut,      \* vector returned by the last predict
    op,              \* history: operation performed by the last step
    args,            \* history: arguments of that operation
    ret,             \* history: what that operation returned
    calls,           \* history: layer calls made by the last step
    phaseLog,        \* history: phases run by the train call
    shuffleLog,      \* history: epoch of every shuffleTrainOrderList call
    reads,           \* history: indices j used in trainIn[j], trainOut[j]
    cerr,            \* history: diagnostics written by train itself
    steps            \* history: number of calls made on the Dense object under test

cnnVars == <<seed, alive, myConvLayers, myFlattenLayer, myDenseLayers>>

trainVars == <<pc, trainIn, trainOut, epochCount, learningRate, setCount, trainOrder,
               epoch, shuffleIdx, pos, trainResult>>

histVars == <<phaseLog, shuffleLog, reads, cerr, steps>>

vars == <<seed, alive, myConvLayers, myFlattenLayer, myDenseLayers, pc, trainIn, trainOut,
          epochCount, learningRate, setCount, trainOrder, epoch, shuffleIdx, pos,
          trainResult, predictOut, op, args, ret, calls, phaseLog, shuffleLog, reads, cerr,
          steps>>

NoTrain ==
    /\ pc = "idle"
    /\ trainIn = <<>>
    /\ trainOut = <<>>
    /\ epochCount = 0
    /\ learningRate = 0
    /\ setCount = 0
    /\ trainOrder = <<>>
    /\ epoch = 0
    /\ shuffleIdx = 0
    /\ pos = 0
    /\ trainResult = "none"
    /\ predictOut = <<>>
    /\ phaseLog = <<>>
    /\ shuffleLog = <<>>
    /\ reads = {}
    /\ cerr = <<>>
    /\ steps = 0

\* Before main constructs the network.
Init ==
    /\ seed \in CnnPatterns
    /\ alive = FALSE
    /\ myConvLayers = <<>>
    /\ myFlattenLayer = Flatten(0)
    /\ myDenseLayers = <<>>
    /\ op = "start"
    /\ args = <<>>
    /\ ret = "none"
    /\ calls = <<>>
    /\ NoTrain

(***************************************************************************)
(* Construction.                                                           *)
(***************************************************************************)
\* The layers Cnn::Cnn builds, in the order it builds them; threw when a
\* layer constructor rejects its arguments (no Cnn object then exists).
Thrown == [threw |-> TRUE, conv |-> <<>>, flat |-> Flatten(0), dense |-> <<>>]

CnnLayers(convInput, convKernel, poolSize, denseOutput, denseFunc, pattern) ==
    IF ConvThrows(convInput, convKernel) THEN Thrown
    ELSE LET conv == Conv(convInput, convKernel)
         IN IF MaxPoolThrows(convOutputSize(<<conv>>), poolSize) THEN Thrown
            ELSE LET pool == MaxPool(convOutputSize(<<conv>>), poolSize)
                 IN IF FlattenThrows(convOutputSize(<<conv, pool>>)) THEN Thrown
                    ELSE LET flat == Flatten(convOutputSize(<<conv, pool>>))
                             denseInput == FlattenOutputSize(flat)
                         IN IF checkParametersThrows(denseInput, denseOutput) THEN Thrown
                            ELSE [threw |-> FALSE,
                                  conv |-> <<conv, pool>>,
                                  flat |-> flat,
                                  dense |-> <<initialize(denseInput, denseOutput,
                                                         denseFunc, pattern)>>]

Construct(convInput, convKernel, poolSize, denseOutput, denseFunc) ==
    LET built == CnnLayers(convInput, convKernel, poolSize, denseOutput, denseFunc, seed)
    IN /\ ~alive
       /\ op \in {"start", "Cnn"}
       /\ op' = "Cnn"
       /\ args' = <<convInput, convKernel, poolSize, denseOutput, denseFunc>>
       /\ calls' = <<>>
       /\ IF built.threw
          THEN /\ ret' = "throw"
               /\ UNCHANGED cnnVars
          ELSE /\ ret' = "none"
               /\ alive' = TRUE
               /\ UNCHANGED seed
               /\ myConvLayers' = built.conv
               /\ myFlattenLayer' = built.flat
               /\ myDenseLayers' = built.dense
       /\ UNCHANGED <<trainVars, predictOut, histVars>>

\* Cnn::addDenseLayer: the new layer's input size is the network's output size.
addDenseLayer(outputSize, type) ==
    /\ alive
    /\ pc = "idle"
    /\ Len(myDenseLayers) + 1 \in DenseLayerCounts
    /\ op' = "addDenseLayer"
    /\ args' = <<outputSize, type>>
    /\ calls' = <<>>
    /\ IF checkParametersThrows(CnnOutputSize(myDenseLayers), outputSize)
       THEN /\ ret' = "throw"
            /\ UNCHANGED myDenseLayers
       ELSE /\ ret' = "none"
            /\ myDenseLayers' = Append(myDenseLayers,
                   initialize(CnnOutputSize(myDenseLayers), outputSize, type, seed))
    /\ UNCHANGED <<seed, alive, myConvLayers, myFlattenLayer, trainVars, predictOut, histVars>>

(***************************************************************************)
(* Cnn::train, one step per loop test (with its shuffle) and per phase.    *)
(***************************************************************************)
CnnInputSize == ConvInputSize(myConvLayers[1])

\* A bool return value as kept in ret and trainResult ("none": nothing returned).
Returned(b) == IF b THEN "true" ELSE "false"

\* Entry of train up to the epoch loop: the three argument tests only write a
\* diagnostic, then the order list is created.
TrainCall(in, out, count, rate) ==
    /\ alive
    /\ pc = "idle"
    /\ trainIn' = in
    /\ trainOut' = out
    /\ epochCount' = count
    /\ learningRate' = rate
    /\ setCount' = Min(Len(in), Len(out))
    /\ cerr' = (IF 0 >= rate THEN <<"invalid learning rate">>
                ELSE IF 0 = count THEN <<"invalid epoch count">> ELSE <<>>)
               \o (IF 0 = setCount' THEN <<"invalid set count">> ELSE <<>>)
    /\ trainOrder' = createTrainOrderList(setCount')
    /\ epoch' = 0
    /\ pc' = "epoch"
    /\ op' = "train"
    /\ args' = <<in, out, count, rate>>
    /\ ret' = "none"
    /\ calls' = <<>>
    /\ UNCHANGED <<cnnVars, shuffleIdx, pos, trainResult, predictOut, phaseLog,
                   shuffleLog, reads, steps>>

\* The epoch loop starts an epoch: shuffleTrainOrderList runs with the
\* random values draws, then the range-for starts (and ends at once when
\* the list is empty).
EpochStart(draws) ==
    /\ pc = "epoch"
    /\ epoch < epochCount
    /\ trainOrder' = shuffleTrainOrderList(trainOrder, draws)
    /\ shuffleLog' = Append(shuffleLog, epoch)
    /\ pos' = 0
    /\ IF Len(trainOrder) = 0
       THEN /\ epoch' = epoch + 1
            /\ pc' = "epoch"
       ELSE /\ pc' = "feedforward"
            /\ UNCHANGED epoch
    /\ op' = "shuffleTrainOrderList"
    /\ args' = <<>>
    /\ ret' = "none"
    /\ calls' = <<>>
    /\ UNCHANGED <<cnnVars, trainIn, trainOut, epochCount, learningRate, setCount,
                   shuffleIdx, trainResult, predictOut, phaseLog, reads, cerr, steps>>

\* The epoch loop has run epochCount times: train returns true.
TrainReturn ==
    /\ pc = "epoch"
    /\ ~(epoch < epochCount)
    /\ pc' = "done"
    /\ trainResult' = Returned(TRUE)
    /\ op' = "trainReturn"
    /\ args' = <<>>
    /\ ret' = Returned(TRUE)
    /\ calls' = <<>>
    /\ UNCHANGED <<cnnVars, trainIn, trainOut, epochCount, learningRate, setCount,
                   trainOrder, epoch, shuffleIdx, pos, predictOut, histVars>>

\* Every number held by the dense layers is within the exactly modelled range.
Small(x) == -MaxAbs <= x /\ x <= MaxAbs

InRange(dense) ==
    \A i \in 1..Len(dense) :
        /\ \A o \in 1..Len(dense[i].myOutput) :
              /\ Small(dense[i].myOutput[o])
              /\ Small(dense[i].myBias[o])
              /\ Small(dense[i].myInputGradients[o])
              /\ \A k \in 1..Len(dense[i].myWeights[o]) : Small(dense[i].myWeights[o][k])

\* The example index of the current iteration of the range-for.
CurrentJ == trainOrder[pos + 1]

Phase(name, ok) == [phase |-> name, epoch |-> epoch, j |-> CurrentJ, ok |-> ok]

\* A faulty failure path: the loop goes on with the same example.
TrainFailsIgnored ==
    /\ pc' = "feedforward"
    /\ UNCHANGED <<trainResult, epoch, pos>>

\* A phase returned false: train returns false.
TrainFails ==
    /\ pc' = "done"
    /\ trainResult' = Returned(FALSE)
    /\ UNCHANGED <<epoch, pos>>

Feedforward(input) ==
    LET r == CnnFeedforward(myConvLayers, myFlattenLayer, myDenseLayers, input)
    IN /\ pc = "feedforward"
       /\ InRange(myDenseLayers)
       /\ input \in ElementAt(trainIn, CurrentJ, InputsFor(CnnInputSize))
       /\ reads' = reads \cup {CurrentJ}
       /\ myDenseLayers' = r.dense
       /\ phaseLog' = Append(phaseLog, Phase("feedforward", r.ok))
       /\ op' = "feedforward"
       /\ args' = <<input>>
       /\ ret' = Returned(r.ok)
       /\ calls' = r.calls
       /\ IF r.ok THEN pc' = "backpropagate" /\ UNCHANGED <<trainResult, epoch, pos>>
          ELSE TrainFails
       /\ UNCHANGED <<seed, alive, myConvLayers, myFlattenLayer, trainIn, trainOut, epochCount,
                      learningRate, setCount, trainOrder, shuffleIdx, predictOut,
                      shuffleLog, cerr, steps>>

Backpropagate(output) ==
    LET r == CnnBackpropagate(myConvLayers, myFlattenLayer, myDenseLayers, output)
    IN /\ pc = "backpropagate"
       /\ InRange(myDenseLayers)
       /\ output \in ElementAt(trainOut, CurrentJ, TargetsFor(CnnOutputSize(myDenseLayers)))
       /\ myDenseLayers' = r.dense
       /\ phaseLog' = Append(phaseLog, Phase("backpropagate", r.ok))
       /\ op' = "backpropagate"
       /\ args' = <<output>>
       /\ ret' = Returned(r.ok)
       /\ calls' = r.calls
       /\ IF r.ok THEN pc' = "optimize" /\ UNCHANGED <<trainResult, epoch, pos>>
          ELSE TrainFails
       /\ UNCHANGED <<seed, alive, myConvLayers, myFlattenLayer, trainIn, trainOut, epochCount,
                      learningRate, setCount, trainOrder, shuffleIdx, predictOut,
                      shuffleLog, reads, cerr, steps>>

\* After a successful optimize the range-for advances; at its end the epoch
\* loop increments i.
Optimize ==
    LET r == CnnOptimize(myConvLayers, myFlattenLayer, myDenseLayers, learningRate)
    IN /\ pc = "optimize"
       /\ InRange(myDenseLayers)
       /\ myDenseLayers' = r.dense
       /\ phaseLog' = Append(phaseLog, Phase("optimize", r.ok))
       /\ op' = "optimize"
       /\ args' = <<learningRate>>
       /\ ret' = Returned(r.ok)
       /\ calls' = r.calls
       /\ IF ~r.ok THEN TrainFails
          ELSE IF pos + 1 < Len(trainOrder)
               THEN pos' = pos + 1 /\ pc' = "feedforward" /\ UNCHANGED <<trainResult, epoch>>
               ELSE pos' = pos + 1 /\ pc' = "epoch" /\ epoch' = epoch + 1
                    /\ UNCHANGED trainResult
       /\ UNCHANGED <<seed, alive, myConvLayers, myFlattenLayer, trainIn, trainOut, epochCount,
                      learningRate, setCount, trainOrder, shuffleIdx, predictOut,
                      shuffleLog, reads, cerr, steps>>

(***************************************************************************)
(* Cnn::predict, called as main does after train has returned true.        *)
(***************************************************************************)
Predict(input) ==
    LET r == CnnFeedforward(myConvLayers, myFlattenLayer, myDenseLayers, input)
    IN /\ alive
       /\ pc = "done"
       /\ trainResult = Returned(TRUE)
       /\ InRange(myDenseLayers)
       /\ myDenseLayers' = r.dense
       /\ predictOut' = CnnOutput(r.dense)
       /\ op' = "predict"
       /\ args' = <<>>
       /\ ret' = Returned(r.ok)
       /\ calls' = r.calls
       /\ UNCHANGED <<seed, alive, myConvLayers, myFlattenLayer, trainVars, histVars>>

Next ==
    \/ \E convInput \in ConvInputs, convKernel \in KernelSizes, poolSize \in PoolSizes,
          denseOutput \in DenseOutputs, denseFunc \in ActFuncTypes :
          Construct(convInput, convKernel, poolSize, denseOutput, denseFunc)
    \/ \E outputSize \in DenseOutputs, type \in ActFuncTypes :
          addDenseLayer(outputSize, type)
    \/ alive /\ \E in \in TrainInputs(CnnInputSize),
                    out \in TrainOutputs(CnnOutputSize(myDenseLayers)),
                    count \in EpochCounts, rate \in LearningRates :
                    TrainCall(in, out, count, rate)
    \/ \E draws \in Draws(Len(trainOrder)) : EpochStart(draws)
    \/ TrainReturn
    \/ alive /\ \E input \in InputsFor(CnnInputSize) : Feedforward(input)
    \/ alive /\ \E output \in TargetsFor(CnnOutputSize(myDenseLayers)) : Backpropagate(output)
    \/ Optimize
    \/ alive /\ \E input \in InputsFor(CnnInputSize) : Predict(input)

Spec == Init /\ [][Next]_vars

(***************************************************************************)
(* createTrainOrderList and shuffleTrainOrderList on their own: a list of  *)
(* any length up to MaxListLen, shuffled any number of times.              *)
(***************************************************************************)
InitShuffle ==
    /\ seed \in CnnPatterns
    /\ alive = FALSE
    /\ myConvLayers = <<>>
    /\ myFlattenLayer = Flatten(0)
    /\ myDenseLayers = <<>>
    /\ op = "start"
    /\ args = <<>>
    /\ ret = "none"
    /\ calls = <<>>
    /\ trainIn = <<>>
    /\ trainOut = <<>>
    /\ epochCount = 0
    /\ learningRate = 0
    /\ trainOrder = <<>>
    /\ epoch = 0
    /\ shuffleIdx = 0
    /\ pos = 0
    /\ trainResult = "none"
    /\ predictOut = <<>>
    /\ phaseLog = <<>>
    /\ shuffleLog = <<>>
    /\ reads = {}
    /\ cerr = <<>>
    /\ steps = 0
    /\ pc = "create"
    /\ setCount \in 0..MaxListLen

CreateList ==
    /\ pc = "create"
    /\ trainOrder' = createTrainOrderList(setCount)
    /\ shuffleIdx' = 0
    /\ pc' = "shuffle"
    /\ op' = "createTrainOrderList"
    /\ args' = <<setCount>>
    /\ ret' = "none"
    /\ calls' = <<>>
    /\ UNCHANGED <<cnnVars, trainIn, trainOut, epochCount, learningRate, setCount,
                   epoch, pos, trainResult, predictOut, histVars>>

\* One iteration of shuffleTrainOrderList with random value r.
Shuffle(r) ==
    /\ pc = "shuffle"
    /\ shuffleIdx < Len(trainOrder)
    /\ r \in 0..(Len(trainOrder) - 1)
    /\ trainOrder' = ShuffleSwap(trainOrder, shuffleIdx, r)
    /\ shuffleIdx' = shuffleIdx + 1
    /\ op' = "swap"
    /\ args' = <<r>>
    /\ ret' = "none"
    /\ calls' = <<>>
    /\ UNCHANGED <<cnnVars, pc, trainIn, trainOut, epochCount, learningRate, setCount,
                   epoch, pos, trainResult, predictOut, histVars>>

\* shuffleTrainOrderList has returned and is called again.
ShuffleAgain ==
    /\ pc = "shuffle"
    /\ shuffleIdx >= Len(trainOrder)
    /\ shuffleIdx' = 0
    /\ op' = "shuffleTrainOrderList"
    /\ args' = <<>>
    /\ ret' = "none"
    /\ calls' = <<>>
    /\ UNCHANGED <<cnnVars, pc, trainIn, trainOut, epochCount, learningRate, setCount,
                   trainOrder, epoch, pos, trainResult, predictOut, histVars>>

NextShuffle ==
    \/ CreateList
    \/ \E r \in 0..(MaxListLen - 1) : Shuffle(r)
    \/ ShuffleAgain

SpecShuffle == InitShuffle /\ [][NextShuffle]_vars

(***************************************************************************)
(* A Dense object on its own, driven through its public interface.         *)
(* myDenseLayers holds the object under test (empty before construction).  *)
(***************************************************************************)
LayerSizes == {0, 1, 2}

DenseValues == {-1, 1}

DenseRates == {-1, 0, 1}

\* All vectors over DenseValues, up to one longer than the largest layer size.
DenseVectors == UNION {[1..len -> DenseValues] : len \in 0..3}

\* Dense objects passed as nextLayer: constructed with the sizes given, then
\* back-propagated so that their input gradients hold values of DenseValues.
NextLayers ==
    UNION {{[initialize(size[1], size[2], "None", seed) EXCEPT !.myInputGradients = g] :
               g \in [1..size[2] -> DenseValues]} :
           size \in (LayerSizes \ {0}) \X (LayerSizes \ {0})}

InitDense ==
    /\ seed \in InitPatterns
    /\ alive = FALSE
    /\ myConvLayers = <<>>
    /\ myFlattenLayer = Flatten(0)
    /\ myDenseLayers = <<>>
    /\ op = "start"
    /\ args = <<>>
    /\ ret = "none"
    /\ calls = <<>>
    /\ trainIn = <<>>
    /\ trainOut = <<>>
    /\ epochCount = 0
    /\ learningRate = 0
    /\ setCount = 0
    /\ trainOrder = <<>>
    /\ epoch = 0
    /\ shuffleIdx = 0
    /\ pos = 0
    /\ trainResult = "none"
    /\ predictOut = <<>>
    /\ phaseLog = <<>>
    /\ shuffleLog = <<>>
    /\ reads = {}
    /\ cerr = <<>>
    /\ steps = 0
    /\ pc = "dense"

denseFrame == <<seed, alive, myConvLayers, myFlattenLayer, trainVars, predictOut, calls,
                phaseLog, shuffleLog, reads, cerr>>

\* Dense::Dense: checkParameters, then initialize.
DenseConstruct(inputSize, outputSize, type) ==
    /\ pc = "dense"
    /\ myDenseLayers = <<>>
    /\ op' = "Dense::Dense"
    /\ args' = <<inputSize, outputSize, type>>
    /\ IF checkParametersThrows(inputSize, outputSize)
       THEN ret' = "throw" /\ UNCHANGED myDenseLayers
       ELSE ret' = "none"
            /\ myDenseLayers' = <<initialize(inputSize, outputSize, type, seed)>>
    /\ UNCHANGED <<denseFrame, steps>>

\* One call on the object under test: r is what the call computes.
DenseCall(name, arguments, r) ==
    /\ pc = "dense"
    /\ Len(myDenseLayers) = 1
    /\ steps < MaxOps
    /\ steps' = steps + 1
    /\ op' = name
    /\ args' = arguments
    /\ ret' = Returned(r.ok)
    /\ myDenseLayers' = <<r.layer>>
    /\ UNCHANGED denseFrame

DenseFeedforwardCall(input) ==
    DenseCall("Dense::feedforward", <<input>>, DenseFeedforward(myDenseLayers[1], input))

DenseBackpropagateCall(outputGradients) ==
    DenseCall("Dense::backpropagate", <<outputGradients>>,
              DenseBackpropagate(myDenseLayers[1], outputGradients))

DenseBackpropagateHiddenCall(nextLayer) ==
    DenseCall("Dense::backpropagate(nextLayer)", <<nextLayer>>,
              DenseBackpropagateHidden(myDenseLayers[1], nextLayer))

DenseOptimizeCall(input, rate) ==
    DenseCall("Dense::optimize", <<input, rate>>,
              DenseOptimize(myDenseLayers[1], input, rate))

NextDense ==
    \/ \E inputSize \in LayerSizes, outputSize \in LayerSizes, type \in ActFuncTypes :
          DenseConstruct(inputSize, outputSize, type)
    \/ \E input \in DenseVectors : DenseFeedforwardCall(input)
    \/ \E outputGradients \in DenseVectors : DenseBackpropagateCall(outputGradients)
    \/ \E nextLayer \in NextLayers : DenseBackpropagateHiddenCall(nextLayer)
    \/ \E input \in DenseVectors, rate \in DenseRates : DenseOptimizeCall(input, rate)

SpecDense == InitDense /\ [][NextDense]_vars

(***************************************************************************)
(* A convolution, max-pooling, flatten or dense layer on its own: one      *)
(* object is constructed (alive) and then called through its interface.    *)
(* A constructor that throws leaves no object.                             *)
(***************************************************************************)
LayerInputSizes == {0, 1, 2, 3, 4, 10, 12}

LayerKernelSizes == {0, 1, 2, 11, 12}

LayerPoolSizes == {0, 1, 2, 3, 5}

\* The n x n matrix with the values 1 .. n*n in row-major order.
Square(n) == [r \in 1..n |-> [c \in 1..n |-> (r - 1) * n + c]]

\* n rows, the last one too short: only the last row fails isMatrixSquare.
NotSquareLast(n) == [r \in 1..n |-> [c \in 1..(IF r = n THEN n - 1 ELSE n) |-> 1]]

\* Matrices passed to a layer: square, and not square in the first or last row.
LayerMatrices ==
    UNION {{Square(n), NotSquare(n), NotSquareLast(n)} : n \in {0, 1, 2, 3, 4, 5, 10, 12}}

\* The vector with the values 1 .. len.
Ramp(len) == [k \in 1..len |-> k]

LayerVectors == {Ramp(len) : len \in {0, 1, 2, 3, 4, 5, 9, 16, 17}}

InitLayers ==
    /\ seed \in CnnPatterns
    /\ alive = FALSE
    /\ myConvLayers = <<>>
    /\ myFlattenLayer = Flatten(0)
    /\ myDenseLayers = <<>>
    /\ op = "start"
    /\ args = <<>>
    /\ ret = "none"
    /\ calls = <<>>
    /\ trainIn = <<>>
    /\ trainOut = <<>>
    /\ epochCount = 0
    /\ learningRate = 0
    /\ setCount = 0
    /\ trainOrder = <<>>
    /\ epoch = 0
    /\ shuffleIdx = 0
    /\ pos = 0
    /\ trainResult = "none"
    /\ predictOut = <<>>
    /\ phaseLog = <<>>
    /\ shuffleLog = <<>>
    /\ reads = {}
    /\ cerr = <<>>
    /\ steps = 0
    /\ pc = "layer"

layerFrame == <<seed, trainVars, predictOut, calls, histVars>>

\* A constructor call: threw tells whether it throws, and the three objects
\* are what exists afterwards when it does not.
LayerConstruct(name, arguments, threw, conv, flat, dense) ==
    /\ pc = "layer"
    /\ ~alive
    /\ op' = name
    /\ args' = arguments
    /\ IF threw
       THEN /\ ret' = "throw"
            /\ UNCHANGED <<alive, myConvLayers, myFlattenLayer, myDenseLayers>>
       ELSE /\ ret' = "none"
            /\ alive' = TRUE
            /\ myConvLayers' = conv
            /\ myFlattenLayer' = flat
            /\ myDenseLayers' = dense
    /\ UNCHANGED layerFrame

ConvConstruct(inputSize, kernelSize) ==
    LayerConstruct("Conv::Conv", <<inputSize, kernelSize>>, ConvThrows(inputSize, kernelSize),
                   <<Conv(inputSize, kernelSize)>>, myFlattenLayer, myDenseLayers)

MaxPoolConstruct(inputSize, poolSize) ==
    LayerConstruct("MaxPool::MaxPool", <<inputSize, poolSize>>,
                   MaxPoolThrows(inputSize, poolSize),
                   <<MaxPool(inputSize, poolSize)>>, myFlattenLayer, myDenseLayers)

FlattenConstruct(inputSize) ==
    LayerConstruct("Flatten::Flatten", <<inputSize>>, FlattenThrows(inputSize),
                   myConvLayers, Flatten(inputSize), myDenseLayers)

DenseLayerConstruct(inputSize, outputSize, type) ==
    LayerConstruct("Dense::Dense", <<inputSize, outputSize, type>>,
                   checkParametersThrows(inputSize, outputSize),
                   myConvLayers, myFlattenLayer,
                   <<initialize(inputSize, outputSize, type, seed)>>)

\* A call on the conv-stack or flatten object: these layers only compute
\* the value they return.
LayerCall(name, arguments, ok) ==
    /\ pc = "layer"
    /\ alive
    /\ op' = name
    /\ args' = arguments
    /\ ret' = Returned(ok)
    /\ UNCHANGED <<alive, myConvLayers, myFlattenLayer, myDenseLayers, layerFrame>>

ConvFeedforwardCall(input) ==
    /\ Len(myConvLayers) = 1
    /\ LayerCall("feedforward", <<input>>, ConvFeedforward(myConvLayers[1], input))

ConvBackpropagateCall(outputGradients) ==
    /\ Len(myConvLayers) = 1
    /\ LayerCall("backpropagate", <<outputGradients>>,
                 ConvBackpropagate(myConvLayers[1], outputGradients))

ConvOptimizeCall(rate) ==
    /\ Len(myConvLayers) = 1
    /\ LayerCall("optimize", <<rate>>, ConvOptimize(myConvLayers[1], rate))

FlattenFeedforwardCall(input) ==
    /\ FlattenInputSize(myFlattenLayer) > 0
    /\ LayerCall("Flatten::feedforward", <<input>>, FlattenFeedforward(myFlattenLayer, input))

FlattenBackpropagateCall(outputGradients) ==
    /\ FlattenInputSize(myFlattenLayer) > 0
    /\ LayerCall("Flatten::backpropagate", <<outputGradients>>,
                 FlattenBackpropagate(myFlattenLayer, outputGradients))

NextOfLayers ==
    \/ \E inputSize \in LayerInputSizes, kernelSize \in LayerKernelSizes :
          ConvConstruct(inputSize, kernelSize)
    \/ \E inputSize \in LayerInputSizes, poolSize \in LayerPoolSizes :
          MaxPoolConstruct(inputSize, poolSize)
    \/ \E inputSize \in 0..4 : FlattenConstruct(inputSize)
    \/ \E inputSize \in LayerSizes, outputSize \in LayerSizes, type \in ActFuncTypes :
          DenseLayerConstruct(inputSize, outputSize, type)
    \/ \E input \in LayerMatrices : ConvFeedforwardCall(input)
    \/ \E outputGradients \in LayerMatrices : ConvBackpropagateCall(outputGradients)
    \/ \E rate \in DenseRates : ConvOptimizeCall(rate)
    \/ \E input \in LayerMatrices : FlattenFeedforwardCall(input)
    \/ \E outputGradients \in LayerVectors : FlattenBackpropagateCall(outputGradients)

SpecLayers == InitLayers /\ [][NextOfLayers]_vars

(***************************************************************************)
(* The random generator (generator.cpp) on its own.  std::rand() returns   *)
(* any value of 0..RAND_MAX; RAND_MAX is the smallest value the C standard *)
(* allows.  A double returned by float64 is kept multiplied by RAND_MAX,   *)
(* which makes (rand / RAND_MAX) * (max - min) + min an integer.           *)
(***************************************************************************)
RandValues == {0, 1, 2, 16384, RAND_MAX - 1, RAND_MAX}

\* Arguments passed as min and max of float64.
Float64Args == {-1, 0, 1, 2}

\* Arguments passed as maxExclusive of uint32, and as min and max of int32.
Uint32Args == {0, 1, 2, 3, 5, 32768, INT32_MAX}

Int32Args == {-2, -1, 0, 1, 5, INT32_MAX - 1, INT32_MAX}

\* What a call on the generator does: it returns a value, or the process is
\* stopped inside it.
Value(v) == [crashed |-> FALSE, value |-> v]

Crashed == [crashed |-> TRUE, value |-> 0]

\* Generator::float64, times RAND_MAX.
float64(min, max, rand) ==
    IF min >= max THEN min * RAND_MAX
    ELSE rand * (max - min) + min * RAND_MAX

\* Generator::uint32: the values the call can return ("crash": the process
\* is stopped by the division).  The remainder by 0 is undefined behaviour.
uint32(maxExclusive, rand) ==
    IF maxExclusive = 0 THEN {Crashed} \cup {Value(v) : v \in Uint32Args}
    ELSE {Value(rand % maxExclusive)}

\* max - min + 1 is representable in a std::int32_t (min < max).
SpanFits(min, max) == min > 0 \/ max <= (INT32_MAX - 1) + min

\* Generator::int32: the values the call can return.  Signed overflow of
\* max - min + 1 is undefined behaviour.
int32(min, max, rand) ==
    IF min >= max THEN {Value(min)}
    ELSE IF ~SpanFits(min, max) THEN {Crashed} \cup {Value(v) : v \in Int32Args}
    ELSE {Value((rand % (max - min + 1)) + min)}

InitRandom ==
    /\ seed \in CnnPatterns
    /\ alive = FALSE
    /\ myConvLayers = <<>>
    /\ myFlattenLayer = Flatten(0)
    /\ myDenseLayers = <<>>
    /\ op = "start"
    /\ args = <<>>
    /\ ret = "none"
    /\ calls = <<>>
    /\ trainIn = <<>>
    /\ trainOut = <<>>
    /\ epochCount = 0
    /\ learningRate = 0
    /\ setCount = 0
    /\ trainOrder = <<>>
    /\ epoch = 0
    /\ shuffleIdx = 0
    /\ pos = 0
    /\ trainResult = "none"
    /\ predictOut = <<>>
    /\ phaseLog = <<>>
    /\ shuffleLog = <<>>
    /\ reads = {}
    /\ cerr = <<>>
    /\ steps = 0
    /\ pc = "random"

\* A call on the generator: rand is what std::rand() returned in it.
RandomCall(name, arguments, rand, result) ==
    /\ pc = "random"
    /\ op' = name
    /\ args' = arguments
    /\ calls' = <<rand>>
    /\ ret' = result
    /\ UNCHANGED <<cnnVars, trainVars, predictOut, histVars>>

Float64Call(min, max, rand) ==
    RandomCall("Generator::float64", <<min, max>>, rand,
               Value(float64(min, max, rand)))

RandomStartValCall(rand) ==
    RandomCall("randomStartVal", <<>>, rand, Value(float64(0, 1, rand)))

Uint32Call(maxExclusive, rand) ==
    \E result \in uint32(maxExclusive, rand) :
        RandomCall("Generator::uint32", <<maxExclusive>>, rand, result)

Int32Call(min, max, rand) ==
    \E result \in int32(min, max, rand) :
        RandomCall("Generator::int32", <<min, max>>, rand, result)

NextRandom ==
    \/ \E min \in Float64Args, max \in Float64Args, rand \in RandValues :
          Float64Call(min, max, rand)
    \/ \E rand \in RandValues : RandomStartValCall(rand)
    \/ \E maxExclusive \in Uint32Args, rand \in RandValues : Uint32Call(maxExclusive, rand)
    \/ \E min \in Int32Args, max \in Int32Args, rand \in RandValues : Int32Call(min, max, rand)

SpecRandom == InitRandom /\ [][NextRandom]_vars

(***************************************************************************)
(* Properties of Cnn::train and Cnn::predict (specification Spec).         *)
(***************************************************************************)
\* The train call in progress or finished was given arguments the interface
\* calls valid: a positive learning rate, at least one epoch, at least one
\* example pair, square inputs of the network's input size and targets of
\* the network's output size.
ValidTrainArgs ==
    /\ learningRate > 0
    /\ epochCount >= 1
    /\ Len(trainIn) >= 1
    /\ Len(trainOut) >= 1
    /\ \A k \in 1..Len(trainIn) :
          /\ Len(trainIn[k]) = CnnInputSize
          /\ \A r \in 1..Len(trainIn[k]) : Len(trainIn[k][r]) = CnnInputSize
    /\ \A k \in 1..Len(trainOut) : Len(trainOut[k]) = Len(Last(myDenseLayers).myOutput)

\* The train call in progress or finished was given an argument the
\* interface calls invalid.
InvalidTrainArgs ==
    \/ learningRate <= 0
    \/ epochCount = 0
    \/ Len(trainIn) = 0
    \/ Len(trainOut) = 0

\* The entries of phaseLog with the given phase, epoch and example index.
PhaseEntries(name, e, j) ==
    {n \in 1..Len(phaseLog) :
        phaseLog[n].phase = name /\ phaseLog[n].epoch = e /\ phaseLog[n].j = j}

SameExample(a, b) == a.epoch = b.epoch /\ a.j = b.j

\* C1: in Cnn::train the phases of an example run in the order feedforward,
\* backpropagate, optimize, each one only after the preceding phase of the
\* same example returned true; a phase that returns false is the last phase
\* that ever runs, and train has then returned false.
PhasesRunInOrderUntilFailure ==
    \A n \in 1..Len(phaseLog) :
        /\ phaseLog[n].phase = "feedforward" =>
              \/ n = 1
              \/ phaseLog[n - 1].phase = "optimize" /\ phaseLog[n - 1].ok
        /\ phaseLog[n].phase = "backpropagate" =>
              /\ n > 1
              /\ phaseLog[n - 1].phase = "feedforward"
              /\ phaseLog[n - 1].ok
              /\ SameExample(phaseLog[n - 1], phaseLog[n])
        /\ phaseLog[n].phase = "optimize" =>
              /\ n > 1
              /\ phaseLog[n - 1].phase = "backpropagate"
              /\ phaseLog[n - 1].ok
              /\ SameExample(phaseLog[n - 1], phaseLog[n])
        /\ ~phaseLog[n].ok =>
              /\ n = Len(phaseLog)
              /\ pc = "done"
              /\ trainResult = "false"

\* A train call that failed in the backpropagate phase of its second example,
\* after the three phases of the first example had succeeded.
FailedOnLaterExample ==
    /\ pc = "done"
    /\ trainResult = "false"
    /\ Len(phaseLog) = 5
    /\ phaseLog[5].phase = "backpropagate"
    /\ ~phaseLog[5].ok
    /\ phaseLog[5].j # phaseLog[1].j

\* C2: a train call with valid arguments on a network built by the Cnn
\* constructor has no failing step: when it has returned, every epoch has
\* run and it has returned true.
ValidTrainReturnsTrue ==
    (alive /\ Len(myDenseLayers) = 1 /\ pc = "done" /\ ValidTrainArgs) =>
        /\ trainResult = "true"
        /\ epoch = epochCount

\* C3: a train call with an invalid argument runs no shuffle and no phase,
\* and returns false.
InvalidTrainArgsRejected ==
    (alive /\ pc # "idle" /\ InvalidTrainArgs) =>
        /\ shuffleLog = <<>>
        /\ phaseLog = <<>>
        /\ pc = "done" => trainResult = "false"

\* The network and the train call of main, train having returned.
MainScenario ==
    /\ alive
    /\ pc = "done"
    /\ CnnInputSize = 4
    /\ Len(myConvLayers) = 2
    /\ Len(myConvLayers[1].myKernel) = 2
    /\ Len(myConvLayers[2].myOutput) = 2
    /\ Len(myDenseLayers) = 1
    /\ Len(myDenseLayers[1].myOutput) = 1
    /\ myDenseLayers[1].myActFunc = "Tanh"
    /\ trainIn = <<HollowSquare, VerticalBar>>
    /\ trainOut = <<<<0>>, <<1>>>>
    /\ epochCount >= 1
    /\ learningRate > 0

\* What predict returns for input on the network as it is.
Prediction(input) ==
    CnnOutput(CnnFeedforward(myConvLayers, myFlattenLayer, myDenseLayers, input).dense)[1]

\* C4: after the training of main, the prediction for the hollow square is
\* closer to 0 than to 1 and the prediction for the vertical bar is closer to
\* 1 than to 0.
MainScenarioSeparatesLabels ==
    MainScenario =>
        /\ trainResult = "true"
        /\ 2 * Prediction(HollowSquare) < 1
        /\ 2 * Prediction(VerticalBar) > 1

\* C5: a step of Cnn::predict makes feedforward calls only, changes no
\* weight, no bias and no input gradient of any layer, and returns the output
\* of the last dense layer.
PredictOnlyFeedsForward ==
    [][op' = "predict" =>
          /\ Len(myDenseLayers') = Len(myDenseLayers)
          /\ \A i \in 1..Len(myDenseLayers) :
                /\ myDenseLayers'[i].myWeights = myDenseLayers[i].myWeights
                /\ myDenseLayers'[i].myBias = myDenseLayers[i].myBias
                /\ myDenseLayers'[i].myInputGradients = myDenseLayers[i].myInputGradients
          /\ myConvLayers' = myConvLayers
          /\ myFlattenLayer' = myFlattenLayer
          /\ Len(calls') >= 1
          /\ \A n \in 1..Len(calls') : calls'[n].op = "feedforward"
          /\ predictOut' = myDenseLayers'[Len(myDenseLayers')].myOutput]_vars

\* predict has returned on a network of two dense layers that was trained
\* and holds an input gradient other than 0.
PredictedAfterTraining ==
    /\ op = "predict"
    /\ ret = "true"
    /\ Len(phaseLog) >= 3
    /\ Len(myDenseLayers) = 2
    /\ \E i \in 1..Len(myDenseLayers) : myDenseLayers[i].myInputGradients[1] # 0

\* C7: in every finished epoch each example index below setCount ran each
\* phase exactly once; a train call that returned true has run
\* epochCount * setCount examples; and the order list was shuffled exactly
\* once per epoch, before the first phase of the epoch.
EachEpochIsOnePass ==
    pc # "idle" =>
        /\ \A e \in 0..(epoch - 1) : \A j \in 0..(setCount - 1) :
              /\ Cardinality(PhaseEntries("feedforward", e, j)) = 1
              /\ Cardinality(PhaseEntries("backpropagate", e, j)) = 1
              /\ Cardinality(PhaseEntries("optimize", e, j)) = 1
        /\ \A n \in 1..Len(phaseLog) :
              /\ phaseLog[n].j \in 0..(setCount - 1)
              /\ phaseLog[n].epoch < Len(shuffleLog)
        /\ (pc = "done" /\ trainResult = "true" /\ setCount >= 1) =>
              /\ Len(phaseLog) = 3 * epochCount * setCount
              /\ \A n \in 1..Len(phaseLog) : phaseLog[n].ok
        /\ \A k \in 1..Len(shuffleLog) : shuffleLog[k] = k - 1
        /\ Len(shuffleLog) =
              IF pc = "epoch" \/ (pc = "done" /\ trainResult = "true") THEN epoch
              ELSE epoch + 1

\* train has returned true after two epochs over two examples, the second
\* epoch in the order 1, 0.
TwoEpochsOfTwoExamples ==
    /\ pc = "done"
    /\ trainResult = "true"
    /\ setCount = 2
    /\ epochCount = 2
    /\ trainOrder = <<1, 0>>
    /\ Len(phaseLog) = 12

\* C8: setCount is the smaller of the two sequence lengths, and every index
\* train has read trainIn and trainOut at is below both lengths and below
\* setCount.
ReadsStayBelowSetCount ==
    pc # "idle" =>
        /\ setCount <= Len(trainIn)
        /\ setCount <= Len(trainOut)
        /\ setCount = Len(trainIn) \/ setCount = Len(trainOut)
        /\ \A j \in reads : j < Len(trainIn) /\ j < Len(trainOut) /\ j < setCount

\* train has returned true on sequences of different lengths, having read
\* every example below the shorter length.
TrainedOnUnequalLengths ==
    /\ pc = "done"
    /\ trainResult = "true"
    /\ Len(trainIn) > Len(trainOut)
    /\ Len(trainOut) >= 1
    /\ reads = 0..(Len(trainOut) - 1)

\* C9: a network has at least one conv-stack layer and one dense layer, and
\* at every boundary the output size of a layer is the input size of the next.
LayerSizesChain ==
    alive =>
        /\ Len(myConvLayers) >= 1
        /\ Len(myDenseLayers) >= 1
        /\ \A i \in 1..(Len(myConvLayers) - 1) :
              ConvOutputSize(myConvLayers[i]) = ConvInputSize(myConvLayers[i + 1])
        /\ ConvOutputSize(myConvLayers[Len(myConvLayers)]) = FlattenInputSize(myFlattenLayer)
        /\ FlattenOutputSize(myFlattenLayer) = DenseInputSize(myDenseLayers[1])
        /\ \A i \in 1..(Len(myDenseLayers) - 1) :
              DenseOutputSize(myDenseLayers[i]) = DenseInputSize(myDenseLayers[i + 1])

\* A network of conv input 4 to which addDenseLayer has added a second dense
\* layer: the first dense layer has 4 inputs and 1 output.
TwoDenseLayersAdded ==
    /\ alive
    /\ op = "addDenseLayer"
    /\ ret = "none"
    /\ Len(myDenseLayers) = 2
    /\ FlattenOutputSize(myFlattenLayer) = 4
    /\ DenseOutputSize(myDenseLayers[1]) = 1

(***************************************************************************)
(* Properties of the training order list (specification SpecShuffle).      *)
(***************************************************************************)
\* C6: the list createTrainOrderList returns is 0, 1, ..., n-1, and after
\* every swap of every call of shuffleTrainOrderList the list has length n
\* and holds every value of 0..n-1 exactly once.
OrderListIsPermutation ==
    pc = "shuffle" =>
        /\ Len(trainOrder) = setCount
        /\ \A v \in 0..(setCount - 1) :
              Cardinality({k \in 1..Len(trainOrder) : trainOrder[k] = v}) = 1
        /\ op = "createTrainOrderList" =>
              \A k \in 1..Len(trainOrder) : trainOrder[k] = k - 1

\* A list of four elements after the last swap of a call that moved every
\* element away from its place.
ShuffledFourElements ==
    /\ pc = "shuffle"
    /\ op = "swap"
    /\ setCount = 4
    /\ shuffleIdx = 4
    /\ \A k \in 1..Len(trainOrder) : trainOrder[k] # k - 1

(***************************************************************************)
(* Properties of a Dense object (specification SpecDense).                 *)
(***************************************************************************)
\* C10: a feedforward, backpropagate or optimize call on a Dense layer with
\* an argument of the wrong size, or an optimize call with a learning rate
\* that is not positive, returns false and changes nothing in the layer.
DenseMismatchRejected ==
    [][(/\ pc = "dense"
        /\ Len(myDenseLayers) = 1
        /\ \/ op' = "Dense::feedforward"
              /\ Len(args'[1]) # DenseInputSize(myDenseLayers[1])
           \/ op' = "Dense::backpropagate"
              /\ Len(args'[1]) # DenseOutputSize(myDenseLayers[1])
           \/ op' = "Dense::backpropagate(nextLayer)"
              /\ DenseOutputSize(myDenseLayers[1]) # DenseInputSize(args'[1])
           \/ op' = "Dense::optimize"
              /\ (Len(args'[1]) # DenseInputSize(myDenseLayers[1]) \/ args'[2] <= 0))
       => (ret' = "false" /\ myDenseLayers' = myDenseLayers)]_vars

\* optimize has returned false for an input of the right size and a learning
\* rate that is not positive, on a layer whose input gradient is not 0.
OptimizeRejectedRate ==
    /\ pc = "dense"
    /\ op = "Dense::optimize"
    /\ ret = "false"
    /\ args[2] <= 0
    /\ Len(args[1]) = DenseInputSize(myDenseLayers[1])
    /\ \E i \in 1..DenseOutputSize(myDenseLayers[1]) :
          myDenseLayers[1].myInputGradients[i] # 0

\* C11: an output-layer backpropagate call whose target equals the output
\* the layer holds (which backpropagate does not change) succeeds and leaves
\* every input gradient 0, whatever the activation function.
TargetEqualToOutputGivesZeroGradients ==
    (/\ pc = "dense"
     /\ Len(myDenseLayers) = 1
     /\ op = "Dense::backpropagate"
     /\ args[1] = myDenseLayers[1].myOutput)
    => /\ ret = "true"
       /\ \A i \in 1..Len(myDenseLayers[1].myInputGradients) :
             myDenseLayers[1].myInputGradients[i] = 0

\* A layer without activation function of two nodes was fed forward to an
\* output other than 0 and then back-propagated with that output as target.
BackpropagatedOwnOutput ==
    /\ pc = "dense"
    /\ Len(myDenseLayers) = 1
    /\ op = "Dense::backpropagate"
    /\ ret = "true"
    /\ myDenseLayers[1].myActFunc = "None"
    /\ Len(myDenseLayers[1].myOutput) = 2
    /\ args[1] = myDenseLayers[1].myOutput
    /\ \A i \in 1..2 : myDenseLayers[1].myOutput[i] # 0

(***************************************************************************)
(* Properties of the layers on their own (specification SpecLayers).       *)
(***************************************************************************)
\* The matrix has n rows of n elements each.
IsSquareOfSize(m, n) == Len(m) = n /\ \A r \in 1..Len(m) : Len(m[r]) = n

\* The last call was made on a convolution or max-pooling object.
OnConvLayer == pc = "layer" /\ alive /\ Len(myConvLayers) = 1

\* C12 (as the code has it): on a convolution and on a max-pooling layer,
\* feedforward returns true exactly for a square matrix of inputSize rows
\* and backpropagate exactly for a square matrix of outputSize rows; optimize
\* returns true exactly for a positive learning rate on a convolution layer
\* and always on a max-pooling layer; no call changes the layer.
ConvLayerCallsOnlyValidate ==
    [][(OnConvLayer /\ op' \in {"feedforward", "backpropagate", "optimize"}) =>
          /\ myConvLayers' = myConvLayers
          /\ op' = "feedforward" =>
                (ret' = "true" <=> IsSquareOfSize(args'[1], Len(myConvLayers[1].myInputGradients)))
          /\ op' = "backpropagate" =>
                (ret' = "true" <=> IsSquareOfSize(args'[1], Len(myConvLayers[1].myOutput)))
          /\ op' = "optimize" =>
                (ret' = "true" <=> (myConvLayers[1].kind = "MaxPool" \/ args'[1] > 0))]_vars

\* C12 (as stated): optimize returns true exactly for a positive learning
\* rate, on a convolution and on a max-pooling layer alike.
ConvLayerOptimizeChecksRate ==
    (OnConvLayer /\ op = "optimize") => (ret = "true" <=> args[1] > 0)

\* A max-pooling layer of input size 4 and output size 2 has rejected a
\* matrix of 4 rows whose last row is too short.
MaxPoolRejectedRaggedMatrix ==
    /\ OnConvLayer
    /\ myConvLayers[1].kind = "MaxPool"
    /\ Len(myConvLayers[1].myInputGradients) = 4
    /\ Len(myConvLayers[1].myOutput) = 2
    /\ op = "feedforward"
    /\ ret = "false"
    /\ args[1] = NotSquareLast(4)

\* The last call was made on a flatten object.
OnFlattenLayer == pc = "layer" /\ alive /\ FlattenInputSize(myFlattenLayer) > 0

\* C13: after a successful feedforward(m) of a flatten layer of input size
\* n the output holds m in row-major order, after a successful
\* backpropagate(g) the input gradients hold g row by row, and both calls
\* return false for an argument of the wrong size.
FlattenCopiesRowMajor ==
    LET n == FlattenInputSize(myFlattenLayer)
    IN /\ (OnFlattenLayer /\ op = "Flatten::feedforward") =>
             /\ ret = "true" <=> IsSquareOfSize(args[1], n)
             /\ ret = "true" =>
                   /\ Len(myFlattenLayer.myOutput) = n * n
                   /\ \A r \in 1..n : \A c \in 1..n :
                         myFlattenLayer.myOutput[(r - 1) * n + c] = args[1][r][c]
       /\ (OnFlattenLayer /\ op = "Flatten::backpropagate") =>
             /\ ret = "true" <=> Len(args[1]) = n * n
             /\ ret = "true" =>
                   \A r \in 1..n : \A c \in 1..n :
                       myFlattenLayer.myInputGradients[r][c] = args[1][(r - 1) * n + c]

\* No layer object exists.
NoLayer ==
    /\ ~alive
    /\ myConvLayers = <<>>
    /\ myDenseLayers = <<>>
    /\ FlattenInputSize(myFlattenLayer) = 0

DenseAndFlattenConstructionRejects ==
    /\ (pc = "layer" /\ op = "Dense::Dense") =>
          /\ ret = "throw" <=> (args[2] = 0 \/ args[1] = 0)
          /\ IF ret = "throw" THEN NoLayer
             ELSE /\ alive
                  /\ Len(myDenseLayers) = 1
                  /\ DenseInputSize(myDenseLayers[1]) = args[1]
                  /\ DenseOutputSize(myDenseLayers[1]) = args[2]
    /\ (pc = "layer" /\ op = "Flatten::Flatten") =>
          /\ ret = "throw" <=> args[1] = 0
          /\ IF ret = "throw" THEN NoLayer
             ELSE /\ alive
                  /\ FlattenInputSize(myFlattenLayer) = args[1]
                  /\ FlattenOutputSize(myFlattenLayer) = args[1] * args[1]

\* The dense constructor has thrown for input size 2 and output size 0.
DenseOfNoOutputRejected ==
    /\ pc = "layer"
    /\ op = "Dense::Dense"
    /\ args[1] = 2
    /\ args[2] = 0
    /\ ret = "throw"
    /\ NoLayer

(***************************************************************************)
(* Properties of the random generator (specification SpecRandom).          *)
(***************************************************************************)
\* C16: float64(min, max) returns min when min >= max and otherwise a value
\* v with min <= v < max, and randomStartVal returns a value v with
\* 0 <= v < 1  (values are kept multiplied by RAND_MAX).
Float64StaysBelowMax ==
    /\ (pc = "random" /\ op = "Generator::float64") =>
          /\ ~ret.crashed
          /\ IF args[1] >= args[2] THEN ret.value = args[1] * RAND_MAX
             ELSE /\ args[1] * RAND_MAX <= ret.value
                  /\ ret.value < args[2] * RAND_MAX
    /\ (pc = "random" /\ op = "randomStartVal") =>
          /\ ~ret.crashed
          /\ 0 <= ret.value
          /\ ret.value < RAND_MAX

\* C17: uint32(maxExclusive) returns a value of 0 .. maxExclusive - 1, and
\* int32(min, max) returns min when min >= max and otherwise a value of
\* min .. max.
IntegerDrawsStayInRange ==
    /\ (pc = "random" /\ op = "Generator::uint32") =>
          /\ ~ret.crashed
          /\ 0 <= ret.value
          /\ ret.value < args[1]
    /\ (pc = "random" /\ op = "Generator::int32") =>
          /\ ~ret.crashed
          /\ IF args[1] >= args[2] THEN ret.value = args[1]
             ELSE args[1] <= ret.value /\ ret.value <= args[2]

(***************************************************************************)
(* Properties of the layer passes of Cnn (specification Spec).             *)
(***************************************************************************)
\* C18: after Cnn::backpropagate has succeeded on two or more dense layers,
\* every dense layer but the last holds the gradients of the hidden-layer
\* form: inputGradients[n] is the sum over the successor's nodes j of
\* successor.inputGradients[j] * successor.weights[j][n], times
\* delta(output[n]).
EarlierDenseLayersUseHiddenForm ==
    (op = "backpropagate" /\ ret = "true" /\ Len(myDenseLayers) >= 2) =>
        \A i \in 1..(Len(myDenseLayers) - 1) :
            myDenseLayers[i].myInputGradients
                = DenseBackpropagateHidden(myDenseLayers[i],
                                           myDenseLayers[i + 1]).layer.myInputGradients

\* The positions of the calls of a pass that went to a layer of one group
\* ("conv", "flatten" or "dense"), and their number.
CallsOf(cs, layer) == {k \in 1..Len(cs) : cs[k].layer = layer}

CallCount(cs, layer) == Cardinality(CallsOf(cs, layer))

\* No call of the pass to a layer of one of the groups failed.
GroupsOk(cs, layers) == \A k \in 1..Len(cs) : cs[k].layer \in layers => cs[k].ok

FeedforwardRunsLayersInOrder ==
    (op \in {"feedforward", "predict"} /\ ret = "true") =>
        LET n == Len(myConvLayers)
            k == Len(myDenseLayers)
        IN /\ Len(calls) = n + 1 + k
           /\ \A c \in 1..Len(calls) : calls[c].op = "feedforward"
           /\ op = "feedforward" => calls[1].arg = args[1]
           /\ \A i \in 1..n :
                 /\ calls[i].layer = "conv" /\ calls[i].index = i - 1
                 /\ i > 1 => calls[i].arg = myConvLayers[i - 1].myOutput
           /\ calls[n + 1].layer = "flatten"
           /\ calls[n + 1].arg = myConvLayers[n].myOutput
           /\ \A i \in 1..k :
                 /\ calls[n + 1 + i].layer = "dense" /\ calls[n + 1 + i].index = i - 1
                 /\ calls[n + 1 + i].arg = IF i = 1 THEN myFlattenLayer.myOutput
                                           ELSE myDenseLayers[i - 1].myOutput

\* A training example was fed forward through two dense layers.
FedForwardThroughTwoDenseLayers ==
    /\ op = "feedforward"
    /\ ret = "true"
    /\ Len(myConvLayers) = 2
    /\ Len(myDenseLayers) = 2
    /\ Len(calls) = 5

\* C22: a successful Cnn::backpropagate calls dense layer last..0, then the
\* flatten layer, then conv-stack layer last..0; the flatten layer is given
\* dense layer 0's inputGradients, the last conv-stack layer the flatten
\* layer's inputGradients and an earlier conv-stack layer its successor's
\* inputGradients; and in a network whose layer sizes chain, once the dense
\* layers have been back-propagated each of these vectors and matrices has
\* the size the layer given it expects, so that its call succeeds.
BackpropagateRunsLayersInReverse ==
    LET n == Len(myConvLayers)
        k == Len(myDenseLayers)
    IN /\ (op = "backpropagate" /\ ret = "true") =>
             /\ Len(calls) = k + 1 + n
             /\ \A i \in 1..k : calls[i].layer = "dense" /\ calls[i].index = k - i
             /\ calls[k + 1].layer = "flatten"
             /\ calls[k + 1].arg = myDenseLayers[1].myInputGradients
             /\ \A i \in 1..n :
                   /\ calls[k + 1 + i].layer = "conv" /\ calls[k + 1 + i].index = n - i
                   /\ calls[k + 1 + i].arg = IF i = 1 THEN myFlattenLayer.myInputGradients
                                             ELSE myConvLayers[n + 2 - i].myInputGradients
       /\ (op = "backpropagate" /\ LayerSizesChain /\ GroupsOk(calls, {"dense"})) =>
             /\ Len(calls) = k + 1 + n
             /\ GroupsOk(calls, {"flatten", "conv"})
             /\ Len(myDenseLayers[1].myInputGradients) = FlattenOutputSize(myFlattenLayer)

\* C23: Cnn::optimize calls the conv-stack layers in index order before any
\* dense layer and the dense layers in index order, dense layer 0 with the
\* flatten layer's output and dense layer i > 0 with dense layer i-1's
\* output.  Within a training step that is the vector the layer consumed in
\* the feedforward before: a successful feedforward leaves in every layer
\* the output its successor consumed, and backpropagate changes no output.
OptimizeReusesFeedforwardInputs ==
    [][LET n == Len(myConvLayers)
           k == Len(myDenseLayers)
       IN /\ (pc = "feedforward" /\ op' = "feedforward" /\ ret' = "true") =>
                \A i \in 1..k :
                    calls'[n + 1 + i].arg = IF i = 1 THEN myFlattenLayer'.myOutput
                                            ELSE myDenseLayers'[i - 1].myOutput
          /\ (pc = "backpropagate" /\ op' = "backpropagate") =>
                /\ myFlattenLayer'.myOutput = myFlattenLayer.myOutput
                /\ \A i \in 1..k : myDenseLayers'[i].myOutput = myDenseLayers[i].myOutput
          /\ (pc = "optimize" /\ op' = "optimize") =>
                /\ Len(calls') >= n
                /\ \A c \in 1..Len(calls') :
                      IF c <= n
                      THEN calls'[c].layer = "conv" /\ calls'[c].index = c - 1
                      ELSE /\ calls'[c].layer = "dense" /\ calls'[c].index = c - n - 1
                           /\ calls'[c].arg = IF c = n + 1 THEN myFlattenLayer.myOutput
                                              ELSE myDenseLayers[c - n - 1].myOutput
                /\ ret' = "true" => Len(calls') = n + k]_vars

\* A training step optimized two dense layers.
OptimizedTwoDenseLayers ==
    /\ op = "optimize"
    /\ ret = "true"
    /\ Len(myDenseLayers) = 2
    /\ Len(calls) = 4

\* C24: in a network whose first dense layer has an outputSize other than
\* the flatten layer's outputSize, no step changes a weight or a bias of a
\* dense layer, and Cnn::backpropagate returns false for every target, which
\* makes train return false on the first example of the first epoch.
FirstDenseSizeMismatchStopsTraining ==
    [][(alive /\ DenseOutputSize(myDenseLayers[1]) # FlattenOutputSize(myFlattenLayer)) =>
          /\ \A i \in 1..Len(myDenseLayers) :
                /\ myDenseLayers'[i].myWeights = myDenseLayers[i].myWeights
                /\ myDenseLayers'[i].myBias = myDenseLayers[i].myBias
          /\ pc # "optimize"
          /\ pc = "backpropagate" =>
                /\ ret' = "false"
                /\ trainResult' = "false"
                /\ pc' = "done"
                /\ epoch = 0 /\ pos = 0
          /\ (pc = "epoch" /\ pc' = "done" /\ trainResult' = "true") =>
                (epochCount = 0 \/ setCount = 0)]_vars

\* The flatten layer of 4 outputs rejected the gradients of a first dense
\* layer of 1 output, and train returned false.
FlattenRejectedDenseGradients ==
    /\ alive
    /\ FlattenOutputSize(myFlattenLayer) = 4
    /\ DenseOutputSize(myDenseLayers[1]) = 1
    /\ op = "backpropagate"
    /\ ret = "false"
    /\ trainResult = "false"
    /\ calls[Len(calls)].layer = "flatten"
    /\ GroupsOk(calls, {"dense"})

\* C25: the vector handed to dense layer 0 by Cnn::feedforward is all zeros,
\* and with the weights and biases the network holds Cnn::predict returns
\* the same vector for any two inputs that pass the dimension checks.
PredictionIgnoresInputValues ==
    (alive /\ InRange(myDenseLayers)) =>
        /\ \A a \in InputsFor(CnnInputSize), b \in InputsFor(CnnInputSize) :
              LET ra == CnnFeedforward(myConvLayers, myFlattenLayer, myDenseLayers, a)
                  rb == CnnFeedforward(myConvLayers, myFlattenLayer, myDenseLayers, b)
              IN (ra.ok /\ rb.ok) => CnnOutput(ra.dense) = CnnOutput(rb.dense)
        /\ (op \in {"feedforward", "predict"}) =>
              \A c \in 1..Len(calls) :
                  (calls[c].layer = "dense" /\ calls[c].index = 0) =>
                      \A j \in 1..Len(calls[c].arg) : calls[c].arg[j] = 0

\* predict ran on a network whose first dense layer has a weight other than
\* 0, for which two inputs of different values pass the dimension checks.
PredictedWithNonZeroWeights ==
    /\ op = "predict"
    /\ ret = "true"
    /\ \E j \in 1..DenseInputSize(myDenseLayers[1]) : myDenseLayers[1].myWeights[1][j] # 0
    /\ \E a \in InputsFor(CnnInputSize), b \in InputsFor(CnnInputSize) :
          /\ a # b
          /\ CnnFeedforward(myConvLayers, myFlattenLayer, myDenseLayers, a).ok
          /\ CnnFeedforward(myConvLayers, myFlattenLayer, myDenseLayers, b).ok

\* C26: in a train call with learningRate <= 0 no step changes a weight or
\* a bias of a dense layer; every phase that runs belongs to the first
\* example of the first epoch; optimize, when reached, fails in the
\* convolution layer's call without calling a dense layer and train returns
\* false; and train returns true only when epochCount or the number of
\* examples is 0.
NonPositiveRateStopsTraining ==
    [][(pc # "idle" /\ learningRate <= 0) =>
          /\ \A i \in 1..Len(myDenseLayers) :
                /\ myDenseLayers'[i].myWeights = myDenseLayers[i].myWeights
                /\ myDenseLayers'[i].myBias = myDenseLayers[i].myBias
          /\ pc \in {"feedforward", "backpropagate", "optimize"} => (epoch = 0 /\ pos = 0)
          /\ pc = "optimize" =>
                /\ ~calls'[1].ok /\ calls'[1].layer = "conv" /\ calls'[1].index = 0
                /\ CallCount(calls', "dense") = 0
                /\ ret' = "false"
                /\ trainResult' = "false"
                /\ pc' = "done"
          /\ (pc = "epoch" /\ pc' = "done" /\ trainResult' = "true") =>
                (epochCount = 0 \/ setCount = 0)]_vars

\* train was called with learning rate 0, one or more epochs and examples,
\* and returned false in optimize.
TrainFailedOnZeroRate ==
    /\ op = "optimize"
    /\ learningRate <= 0
    /\ epochCount >= 1
    /\ setCount >= 1
    /\ ret = "false"
    /\ trainResult = "false"

(***************************************************************************)
(* Properties of the computations of Dense (specification SpecDense).      *)
(***************************************************************************)
\* C27: Dense::feedforward(input) with as many elements as the layer has
\* inputs returns true and leaves in every output[i] the activation of
\* bias[i] + the sum over j of weights[i][j] * input[j], taken with the
\* weights and bias the layer held before the call.
FeedforwardComputesWeightedSums ==
    [][(pc = "dense" /\ op' = "Dense::feedforward"
            /\ Len(args'[1]) = DenseInputSize(myDenseLayers[1])) =>
          LET l == myDenseLayers[1]
              input == args'[1]
              sum[i \in 1..DenseOutputSize(l), j \in 0..DenseInputSize(l)] ==
                  IF j = 0 THEN l.myBias[i]
                  ELSE sum[i, j - 1] + l.myWeights[i][j] * input[j]
          IN /\ ret' = "true"
             /\ DenseOutputSize(myDenseLayers'[1]) = DenseOutputSize(l)
             /\ \A i \in 1..DenseOutputSize(l) :
                   myDenseLayers'[1].myOutput[i]
                       = ActOutput(l.myActFunc, sum[i, DenseInputSize(l)])]_vars

\* A layer of two inputs and two nodes was fed forward and holds an output
\* other than 0.
FedForwardTwoByTwoLayer ==
    /\ pc = "dense"
    /\ op = "Dense::feedforward"
    /\ ret = "true"
    /\ DenseInputSize(myDenseLayers[1]) = 2
    /\ DenseOutputSize(myDenseLayers[1]) = 2
    /\ \E i \in 1..2 : myDenseLayers[1].myOutput[i] # 0

\* C28: Dense::backpropagate(nextLayer) with outputSize equal to the next
\* layer's inputSize returns true and leaves in every inputGradients[i] the
\* sum over the next layer's nodes j of nextLayer.inputGradients[j] *
\* nextLayer.weights[j][i], times delta(output[i]); every j is an index of
\* nextLayer.inputGradients and of nextLayer.weights, and every i an index
\* of nextLayer.weights[j].
HiddenBackpropagateSumsWeightedGradients ==
    [][(pc = "dense" /\ op' = "Dense::backpropagate(nextLayer)"
            /\ DenseOutputSize(myDenseLayers[1]) = DenseInputSize(args'[1])) =>
          LET l == myDenseLayers[1]
              nextLayer == args'[1]
              error[i \in 1..DenseOutputSize(l), j \in 0..DenseOutputSize(nextLayer)] ==
                  IF j = 0 THEN 0
                  ELSE error[i, j - 1]
                       + nextLayer.myInputGradients[j] * nextLayer.myWeights[j][i]
          IN /\ ret' = "true"
             /\ \A i \in 1..DenseOutputSize(l), j \in 1..DenseOutputSize(nextLayer) :
                   /\ j \in DOMAIN nextLayer.myInputGradients
                   /\ j \in DOMAIN nextLayer.myWeights
                   /\ i \in DOMAIN nextLayer.myWeights[j]
             /\ Len(myDenseLayers'[1].myInputGradients) = DenseOutputSize(l)
             /\ \A i \in 1..DenseOutputSize(l) :
                   myDenseLayers'[1].myInputGradients[i]
                       = error[i, DenseOutputSize(nextLayer)]
                         * ActDelta(l.myActFunc, l.myOutput[i])]_vars

\* A layer of two nodes was back-propagated against a next layer of two
\* inputs and two nodes.
BackpropagatedAgainstNextLayer ==
    /\ pc = "dense"
    /\ op = "Dense::backpropagate(nextLayer)"
    /\ ret = "true"
    /\ DenseOutputSize(myDenseLayers[1]) = 2
    /\ DenseOutputSize(args[1]) = 2
    /\ \E i \in 1..2 : myDenseLayers[1].myInputGradients[i] # 0

\* C29: Dense::optimize(input, lr) with as many elements as the layer has
\* inputs and lr > 0 returns true, makes every bias[i] the old bias[i] +
\* inputGradients[i] * lr and every weights[i][j] the old weights[i][j] +
\* inputGradients[i] * lr * input[j], and leaves output and inputGradients
\* as they were.
OptimizeAdjustsEveryParameterOnce ==
    [][(pc = "dense" /\ op' = "Dense::optimize"
            /\ Len(args'[1]) = DenseInputSize(myDenseLayers[1]) /\ args'[2] > 0) =>
          LET l == myDenseLayers[1]
              input == args'[1]
              lr == args'[2]
          IN /\ ret' = "true"
             /\ Len(myDenseLayers'[1].myBias) = DenseOutputSize(l)
             /\ Len(myDenseLayers'[1].myWeights) = DenseOutputSize(l)
             /\ \A i \in 1..DenseOutputSize(l) :
                   /\ myDenseLayers'[1].myBias[i] = l.myBias[i] + l.myInputGradients[i] * lr
                   /\ Len(myDenseLayers'[1].myWeights[i]) = DenseInputSize(l)
                   /\ \A j \in 1..DenseInputSize(l) :
                         myDenseLayers'[1].myWeights[i][j]
                             = l.myWeights[i][j] + l.myInputGradients[i] * lr * input[j]
             /\ myDenseLayers'[1].myOutput = l.myOutput
             /\ myDenseLayers'[1].myInputGradients = l.myInputGradients]_vars

\* A layer of two inputs holding a gradient other than 0 was optimized with
\* learning rate 1 and an input holding -1.
OptimizedWithGradients ==
    /\ pc = "dense"
    /\ op = "Dense::optimize"
    /\ ret = "true"
    /\ DenseInputSize(myDenseLayers[1]) = 2
    /\ \E j \in 1..2 : args[1][j] = -1
    /\ \E i \in 1..DenseOutputSize(myDenseLayers[1]) : myDenseLayers[1].myInputGradients[i] # 0

\* C30: a call on a Dense layer other than an optimize that returns true
\* (feedforward, either backpropagate, an optimize that returns false)
\* leaves weights and bias as they were, and no call changes the layer's
\* inputSize or outputSize.
OnlyOptimizeChangesParameters ==
    [][(pc = "dense" /\ Len(myDenseLayers) = 1) =>
          /\ DenseInputSize(myDenseLayers'[1]) = DenseInputSize(myDenseLayers[1])
          /\ DenseOutputSize(myDenseLayers'[1]) = DenseOutputSize(myDenseLayers[1])
          /\ op' \in {"Dense::feedforward", "Dense::backpropagate",
                      "Dense::backpropagate(nextLayer)", "Dense::optimize"}
          /\ ~(op' = "Dense::optimize" /\ ret' = "true") =>
                /\ myDenseLayers'[1].myWeights = myDenseLayers[1].myWeights
                /\ myDenseLayers'[1].myBias = myDenseLayers[1].myBias]_vars

\* An optimize with an input of the right size and learning rate -1 returned
\* false on a layer that holds a gradient other than 0.
OptimizeRejectedWithGradients ==
    /\ pc = "dense"
    /\ op = "Dense::optimize"
    /\ ret = "false"
    /\ Len(args[1]) = DenseInputSize(myDenseLayers[1])
    /\ args[2] = -1
    /\ \E i \in 1..DenseOutputSize(myDenseLayers[1]) : myDenseLayers[1].myInputGradients[i] # 0

====
